---- MODULE Spec2Model ----
(***************************************************************************)
(* Model of src/mpm/main.py: the two tools search_descriptions and         *)
(* get_manpage, their validators, and execute_call around subprocess.run.  *)
(*                                                                         *)
(* A Python str is a sequence of characters; a character is a one-element  *)
(* TLA+ string ("a", "\n"), or, for a code point TLA+ cannot write, the    *)
(* string of its Python escape ("\\v" is U+000B, "\\x60" the backtick).  None is <<>> and an int *)
(* argument n is <<n>> where the code accepts int | None.                  *)
(***************************************************************************)
EXTENDS Integers, Sequences, FiniteSets, TLC

VARIABLES
    st,        \* position of the call: Idle, Rejected, or execute_call's state
    op,        \* the function that was called
    input,     \* its string argument (page or query)
    section,   \* get_manpage's section argument, <<>> for None
    valid,     \* <<b>> once a validator returned b, <<>> before
    argv,      \* the args list handed to execute_call, <<>> before
    launches,  \* number of sp.run calls made
    proc,      \* the CompletedProcess sp.run returned
    out,       \* what execute_call returned
    result     \* what the called function returned

vars == <<st, op, input, section, valid, argv, launches, proc, out, result>>

----------------------------------------------------------------------------
(* Bounds of the explored inputs. *)

\* longest generated page and query of Spec
MaxLen == 2
\* longest generated raw stdout of the external process
MaxOutLen == 2
\* longest generated topic of ValidatorSpec
MaxTopicLen == 3
\* longest generated query of ValidatorSpec
MaxQueryLen == 2

RECURSIVE Strs(_, _)
\* All strings over alphabet A of length at most n.
Strs(A, n) ==
    IF n = 0 THEN {<<>>}
    ELSE LET shorter == Strs(A, n - 1)
         IN  shorter \cup {Append(s, c) : s \in shorter, c \in A}

----------------------------------------------------------------------------
(* Characters and character classes of the two patterns. *)

LOWER == {"a","b","c","d","e","f","g","h","i","j","k","l","m",
          "n","o","p","q","r","s","t","u","v","w","x","y","z"}
UPPER == {"A","B","C","D","E","F","G","H","I","J","K","L","M",
          "N","O","P","Q","R","S","T","U","V","W","X","Y","Z"}
DIGITS == {"0","1","2","3","4","5","6","7","8","9"}

\* \s of a str pattern: Unicode whitespace (str.isspace), here its code
\* points up to U+00A0.
WHITESPACE == {" ", "\t", "\n", "\r", "\f", "\\v",
               "\\x1c", "\\x1d", "\\x1e", "\\x1f", "\\x85", "\\xa0"}

\* [a-zA-Z0-9_\-]
TOPIC_HEAD_CLASS == LOWER \cup UPPER \cup DIGITS \cup {"_", "-"}
\* [a-zA-Z0-9_]
TOPIC_TAIL_CLASS == LOWER \cup UPPER \cup DIGITS \cup {"_"}
\* [a-zA-Z0-9\s\.\,\:\/'\"\(\)\[\]\{\}\*\+\?\|\^\$_\-]
SEARCH_CLASS ==
    LOWER \cup UPPER \cup DIGITS \cup WHITESPACE \cup
    {".", ",", ":", "/", "'", "\"", "(", ")", "[", "]", "{", "}",
     "*", "+", "?", "|", "^", "$", "_", "-"}

----------------------------------------------------------------------------
(* Regular expression matching.  A position p is the number of characters  *)
(* consumed so far, 0..Len(s).                                             *)

\* X+ from position i: the positions one or more characters of class C
\* after i.
Plus(s, i, C) == {j \in (i + 1)..Len(s) : \A k \in (i + 1)..j : s[k] \in C}

\* $ without re.MULTILINE: at the end of the string, or just before a
\* newline that is the last character.
DollarAt(s, p) == p = Len(s) \/ (p = Len(s) - 1 /\ s[Len(s)] = "\n")

\* One more (\.[a-zA-Z0-9_]+) group from any position of P.
TopicGroup(s, P) ==
    UNION {Plus(s, p + 1, TOPIC_TAIL_CLASS) :
             p \in {q \in P : q < Len(s) /\ s[q + 1] = "."}}

RECURSIVE TopicGroups(_, _)
\* (\.[a-zA-Z0-9_]+)* from the positions of P: zero or more groups.
TopicGroups(s, P) ==
    LET more == P \cup TopicGroup(s, P)
    IN  IF more = P THEN P ELSE TopicGroups(s, more)

\* ^[a-zA-Z0-9_\-]+(\.[a-zA-Z0-9_]+)*  -- the positions where the pattern
\* body can end; ^ holds at position 0 only.
ALLOWED_TOPIC_INPUT(s) == TopicGroups(s, Plus(s, 0, TOPIC_HEAD_CLASS))

\* faulty variant: the class also admits ;
SearchWithSemicolon(s) == Plus(s, 0, SEARCH_CLASS \cup {";"})
\* ^[...]+  -- the positions where the body of the search pattern can end.
ALLOWED_SEARCH_INPUT(s) == Plus(s, 0, SEARCH_CLASS)

\* faulty variant: Pattern.match in place of Pattern.fullmatch
match(s, ends) == \E p \in ends : DollarAt(s, p)
\* Pattern.fullmatch: the trailing $ is satisfied and the match spans the
\* whole string.
fullmatch(s, ends) == \E p \in ends : DollarAt(s, p) /\ p = Len(s)

\* faulty variant: the topic is checked against the search pattern
validate_topic_as_search(s) == fullmatch(s, ALLOWED_SEARCH_INPUT(s))
\* bool(ALLOWED_TOPIC_INPUT.fullmatch(input))
validate_topic(s) == fullmatch(s, ALLOWED_TOPIC_INPUT(s))

\* bool(ALLOWED_SEARCH_INPUT.fullmatch(input))
validate_search_query(s) == fullmatch(s, ALLOWED_SEARCH_INPUT(s))

----------------------------------------------------------------------------
(* String helpers. *)

\* sub in s
Contains(s, sub) ==
    \E i \in 0..(Len(s) - Len(sub)) : SubSeq(s, i + 1, i + Len(sub)) = sub

DigitChar(d) ==
    CASE d = 0 -> "0" [] d = 1 -> "1" [] d = 2 -> "2" [] d = 3 -> "3"
      [] d = 4 -> "4" [] d = 5 -> "5" [] d = 6 -> "6" [] d = 7 -> "7"
      [] d = 8 -> "8" [] d = 9 -> "9"

RECURSIVE Decimal(_)
\* decimal digits of a natural number, most significant first
Decimal(n) ==
    IF n < 10 THEN <<DigitChar(n)>>
    ELSE Append(Decimal(n \div 10), DigitChar(n % 10))

\* str(n) of an int
str(n) == IF n < 0 THEN <<"-">> \o Decimal(-n) ELSE Decimal(n)

\* str.splitlines line boundaries
LINE_BOUNDARIES == {"\n", "\r", "\f", "\\v", "\\x1c", "\\x1d", "\\x1e",
                    "\\x85", "\\u2028", "\\u2029"}

Min(S) == CHOOSE m \in S : \A x \in S : m <= x

RECURSIVE SplitOn(_, _)
\* s.split(sep) for a one-character separator
SplitOn(s, sep) ==
    LET at == {k \in 1..Len(s) : s[k] = sep}
    IN  IF at = {} THEN <<s>>
        ELSE <<SubSeq(s, 1, Min(at) - 1)>>
             \o SplitOn(SubSeq(s, Min(at) + 1, Len(s)), sep)

split_newline(s) == SplitOn(s, "\n")

RECURSIVE SplitLines(_)
SplitLines(s) ==
    LET at == {k \in 1..Len(s) : s[k] \in LINE_BOUNDARIES}
    IN  IF s = <<>> THEN <<>>
        ELSE IF at = {} THEN <<s>>
        ELSE LET j == Min(at)
                 next == IF s[j] = "\r" /\ j < Len(s) /\ s[j + 1] = "\n"
                         THEN j + 2 ELSE j + 1
             IN  <<SubSeq(s, 1, j - 1)>> \o SplitLines(SubSeq(s, next, Len(s)))

\* str.splitlines(): the lines of s, boundaries dropped, "\r\n" one boundary,
\* no entry after a final boundary.
splitlines(s) == SplitLines(s)

RECURSIVE UniversalNewlines(_)
\* text=True: the captured bytes are decoded with universal newlines, so
\* "\r\n" and a lone "\r" both read as "\n".
UniversalNewlines(s) ==
    IF s = <<>> THEN <<>>
    ELSE IF s[1] = "\r" /\ Len(s) > 1 /\ s[2] = "\n"
         THEN <<"\n">> \o UniversalNewlines(SubSeq(s, 3, Len(s)))
    ELSE IF s[1] = "\r" THEN <<"\n">> \o UniversalNewlines(Tail(s))
    ELSE <<s[1]>> \o UniversalNewlines(Tail(s))

----------------------------------------------------------------------------
(* Result types. *)

InputValidationError(inp, note) ==
    [type |-> "InputValidationError", input |-> inp, note |-> note]

ManError(stdout, stderr, return_code, note) ==
    [type |-> "ManError", stdout |-> stdout, stderr |-> stderr,
     return_code |-> return_code, note |-> note]

ManSearchResult(results) == [type |-> "ManSearchResult", results |-> results]

ManPage(text) == [type |-> "ManPage", text |-> text]

\* ManResult.result holds one of the four types above
ManResult(r) == [type |-> "ManResult", result |-> r]

\* subprocess.CompletedProcess as sp.run(..., capture_output=True, text=True)
\* returns it
CompletedProcess(args, returncode, stdout, stderr) ==
    [type |-> "CompletedProcess", args |-> args, returncode |-> returncode,
     stdout |-> stdout, stderr |-> stderr]

\* No value yet: the call has not got that far.
NONE == [type |-> "None"]

\* An exception leaving a function instead of a return value.
Raised(kind, ex) == [type |-> "Raised", kind |-> kind, ex |-> ex]

----------------------------------------------------------------------------
(* execute_call *)

MAN == <<"m", "a", "n">>

\* faulty variant: no except Exception clause
execute_call_except_no_catch_all(kind, ex) ==
    IF kind = "TimeoutExpired"
    THEN ManError(<<>>, <<>>, -1, <<"T", "i", "m", "e", "o", "u", "t", " ", "e", "x", "c", "e", "p", "t", "i", "o", "n", " ">> \o ex \o <<".">>)
    ELSE Raised(kind, ex)
\* The two except clauses around sp.run: TimeoutExpired, then Exception.
execute_call_except(kind, ex) ==
    IF kind = "TimeoutExpired"
    THEN ManError(<<>>, <<>>, -1, <<"T", "i", "m", "e", "o", "u", "t", " ", "e", "x", "c", "e", "p", "t", "i", "o", "n", " ">> \o ex \o <<".">>)
    ELSE ManError(<<>>, <<>>, -1, <<"U", "n", "k", "n", "o", "w", "n", " ", "e", "x", "c", "e", "p", "t", "i", "o", "n", " ">> \o ex \o <<".">>)

\* faulty variant: the return code is not checked
execute_call_note_no_returncode(p) ==
    (IF p.stderr # <<>>
     THEN <<"U", "n", "e", "x", "p", "e", "c", "t", "e", "d", " ", "e", "r", "r", "o", "r", " ", "e", "n", "c", "o", "u", "n", "t", "e", "r", "e", "d", ":", " ">> \o p.stderr \o <<"\n">> ELSE <<>>)
    \o (IF Contains(p.stdout, <<"N", "o", " ", "m", "a", "n", "u", "a", "l", " ", "e", "n", "t", "r", "y", " ", "f", "o", "r", " ">>)
        THEN p.stdout \o <<"\n">> ELSE <<>>)
\* The note accumulated over the three checks of a completed process.
execute_call_note(p) ==
    (IF p.stderr # <<>>
     THEN <<"U", "n", "e", "x", "p", "e", "c", "t", "e", "d", " ", "e", "r", "r", "o", "r", " ", "e", "n", "c", "o", "u", "n", "t", "e", "r", "e", "d", ":", " ">> \o p.stderr \o <<"\n">> ELSE <<>>)
    \o (IF Contains(p.stdout, <<"N", "o", " ", "m", "a", "n", "u", "a", "l", " ", "e", "n", "t", "r", "y", " ", "f", "o", "r", " ">>)
        THEN p.stdout \o <<"\n">> ELSE <<>>)
    \o (IF p.returncode # 0
        THEN <<"N", "o", "n", " ", "z", "e", "r", "o", " ", "r", "e", "t", "u", "r", "n", " ", "c", "o", "d", "e", " ", "\\x60">> \o str(p.returncode) \o <<"\\x60", "\n">>
        ELSE <<>>)

\* What execute_call returns for a completed process.
execute_call_return(p) ==
    LET note == execute_call_note(p)
    IN  IF note # <<>>
        THEN ManError(p.stdout, p.stderr, p.returncode, note)
        ELSE p

----------------------------------------------------------------------------
(* The two tools. *)

QUERY_NOTE == <<"Q", "u", "e", "r", "y", " ", "c", "o", "n", "t", "a", "i", "n", "s", " ", "i", "n", "v", "a", "l", "i", "d", " ", "c", "h", "a", "r", "a", "c", "t", "e", "r", "s">>

PAGE_NOTE ==
    <<"P", "a", "g", "e", " ", "n", "a", "m", "e", " ", "m", "u", "s", "t", " ", "c", "o", "n", "t", "a", "i", "n", " ", "o", "n", "l", "y", " ", "a", "l", "p", "h", "a", "n", "u", "m", "e", "r", "i", "c", " ", "c", "h", "a", "r", "a", "c", "t", "e", "r", "s", ",", " ", "u", "n", "d", "e", "r", "s", "c", "o", "r", "e", "s", " ", "a", "n", "d", " ", "d", "a", "s", "h", "e", "s", ".", " ">>
    \o <<"O", "p", "t", "i", "o", "n", "a", "l", "l", "y", " ", "f", "o", "l", "l", "o", "w", "e", "d", " ", "b", "y", " ", "a", " ", "'", ".", "'", " ", "a", "n", "d", " ", "n", "u", "m", "b", "e", "r", " ", "f", "o", "r", " ", "s", "e", "c", "t", "i", "o", "n", ".">>

search_descriptions_args(query) == <<MAN, <<"-", "k">>, query>>

\* faulty variant: split("\n") in place of splitlines()
search_descriptions_split_newline(o) ==
    IF o.type = "Raised" THEN o
    ELSE IF o.type = "ManError" THEN ManResult(o)
    ELSE ManResult(ManSearchResult(split_newline(o.stdout)))
\* search_descriptions after execute_call returned o (an exception it does
\* not catch leaves it as it came).
search_descriptions_return(o) ==
    IF o.type = "Raised" THEN o
    ELSE IF o.type = "ManError" THEN ManResult(o)
    ELSE ManResult(ManSearchResult(splitlines(o.stdout)))

\* faulty variant: `if section is not None:`
get_manpage_args_is_not_none(page, sec) ==
    IF sec # <<>> THEN <<MAN, str(sec[1]), page>> ELSE <<MAN, page>>
\* `if section:` is false for None and for 0
get_manpage_args(page, sec) ==
    IF sec # <<>> /\ sec[1] # 0
    THEN <<MAN, str(sec[1]), page>>
    ELSE <<MAN, page>>

\* get_manpage after execute_call returned o
get_manpage_return(o) ==
    IF o.type = "Raised" THEN o
    ELSE IF o.type = "ManError" THEN ManResult(o)
    ELSE ManResult(ManPage(o.stdout))

\* the calling tool's return for execute_call's value o
Return(f, o) ==
    IF f = "search_descriptions" THEN search_descriptions_return(o)
    ELSE get_manpage_return(o)

----------------------------------------------------------------------------
(* Inputs. *)

PAGE_ALPHABET == {"a", "-", ".", " ", ";", "|", "&", "$", "\\x60", "(", ")",
                  "<", ">", "\n"}
PageSamples == {<<"l", "s">>, <<"p", "r", "i", "n", "t", "f">>, <<"l", "s", ".", "1">>, <<"b", "a", "s", "h", ".", "1", ".", "g", "z">>, <<"f", "o", "o">>,
                <<"-", "k">>, <<"l", "s", ";", " ", "i", "d">>, <<"l", "s", "\n">>}
Pages == Strs(PAGE_ALPHABET, MaxLen) \cup PageSamples

\* None, 0, positive and negative ints
Sections == {<<>>, <<0>>, <<3>>, <<12>>, <<-1>>}

QUERY_ALPHABET == {"a", " ", "|", ";", "\\x60"}
QuerySamples == {<<"l", "i", "s", "t">>, <<"n", "e", "t", "w", "o", "r", "k", ".", "*", "(", "s", "o", "c", "k", "e", "t", "|", "b", "i", "n", "d", ")">>, <<"\\x60", "e", "c", "h", "o", " ", "h", "i", "\\x60">>,
                 <<"b", "a", "d", "<", "c", "h", "a", "r">>}
Queries == Strs(QUERY_ALPHABET, MaxLen) \cup QuerySamples

\* raw output of the external process, before newline translation
OUT_ALPHABET == {"a", "\n", "\r"}
StdoutSamples == {<<"o", "k">>, <<"l", "s", " ", "(", "1", ")", " ", "-", " ", "l", "i", "s", "t", " ", "d", "i", "r", "e", "c", "t", "o", "r", "y", " ", "c", "o", "n", "t", "e", "n", "t", "s", "\n">>,
                  <<"N", "o", " ", "m", "a", "n", "u", "a", "l", " ", "e", "n", "t", "r", "y", " ", "f", "o", "r", " ", "f", "o", "o", "\n">>, <<"a", "\n", "b", "\n", "\n", "a", "\n">>, <<"a", "\f", "b">>}
RawStdouts == Strs(OUT_ALPHABET, MaxOutLen) \cup StdoutSamples
RawStderrs == {<<>>, <<"E", "r", "r", "o", "r", "\r", "\n">>}
\* exit status; -N is a child killed by signal N
ReturnCodes == {0, 1, -1}
\* str(ex) of the exception sp.run raised
ExTexts == {<<>>, <<"b", "o", "o", "m">>}
\* exceptions sp.run raises other than TimeoutExpired
LaunchErrors == {"OSError", "UnicodeDecodeError"}

----------------------------------------------------------------------------
(* Actions. *)

Init ==
    /\ st = "Idle" /\ op = "none" /\ input = <<>> /\ section = <<>>
    /\ valid = <<>> /\ argv = <<>> /\ launches = 0
    /\ proc = NONE /\ out = NONE /\ result = NONE

\* search_descriptions(query), up to its return or its call of execute_call
SearchDescriptions(query) ==
    /\ st = "Idle" /\ op = "none"
    /\ op' = "search_descriptions"
    /\ input' = query
    /\ valid' = <<validate_search_query(query)>>
    /\ IF ~validate_search_query(query)
       THEN /\ st' = "Rejected"
            /\ result' = ManResult(InputValidationError(query, QUERY_NOTE))
            /\ argv' = argv
       ELSE /\ st' = "Start"
            /\ argv' = search_descriptions_args(query)
            /\ result' = result
    /\ UNCHANGED <<section, launches, proc, out>>

\* get_manpage(page, section), up to its return or its call of execute_call
GetManpage(page, sec) ==
    /\ st = "Idle" /\ op = "none"
    /\ op' = "get_manpage"
    /\ input' = page
    /\ section' = sec
    /\ valid' = <<validate_topic(page)>>
    /\ IF ~validate_topic(page)
       THEN /\ st' = "Rejected"
            /\ result' = ManResult(InputValidationError(page, PAGE_NOTE))
            /\ argv' = argv
       ELSE /\ st' = "Start"
            /\ argv' = get_manpage_args(page, sec)
            /\ result' = result
    /\ UNCHANGED <<launches, proc, out>>

\* execute_call calls sp.run(args, capture_output=True, timeout=5, text=True)
Launch ==
    /\ st = "Start"
    /\ st' = "Launched"
    /\ launches' = launches + 1
    /\ UNCHANGED <<op, input, section, valid, argv, proc, out, result>>

\* faulty variant: sp.run is called again after a timeout
TimeoutRetry(ex) ==
    /\ st = "Launched" /\ launches < 3
    /\ launches' = launches + 1
    /\ UNCHANGED <<st, op, input, section, valid, argv, proc, out, result>>
\* sp.run raises TimeoutExpired; execute_call and the tool return
Timeout(ex) ==
    /\ st = "Launched"
    /\ st' = "TimedOut"
    /\ out' = execute_call_except("TimeoutExpired", ex)
    /\ result' = Return(op, out')
    /\ UNCHANGED <<op, input, section, valid, argv, launches, proc>>

\* sp.run raises another exception; execute_call and the tool return
LaunchFail(kind, ex) ==
    /\ st = "Launched"
    /\ st' = "LaunchFailed"
    /\ out' = execute_call_except(kind, ex)
    /\ result' = Return(op, out')
    /\ UNCHANGED <<op, input, section, valid, argv, launches, proc>>

\* sp.run returns: the process ended with these streams and exit status
Complete(rawout, rawerr, rc) ==
    /\ st = "Launched"
    /\ st' = "Completed"
    /\ proc' = CompletedProcess(argv, rc, UniversalNewlines(rawout),
                                UniversalNewlines(rawerr))
    /\ UNCHANGED <<op, input, section, valid, argv, launches, out, result>>

\* the three checks of execute_call, its return and the tool's return
Classify ==
    /\ st = "Completed"
    /\ out' = execute_call_return(proc)
    /\ st' = IF out'.type = "ManError" THEN "SoftFailure" ELSE "Success"
    /\ result' = Return(op, out')
    /\ UNCHANGED <<op, input, section, valid, argv, launches, proc>>

\* a caller calls search_descriptions; no call is in progress
CallSearchDescriptions ==
    st = "Idle" /\ \E query \in Queries : SearchDescriptions(query)

\* a caller calls get_manpage; no call is in progress
CallGetManpage ==
    st = "Idle" /\ \E page \in Pages, sec \in Sections : GetManpage(page, sec)

\* sp.run exceeds its timeout
RunTimesOut == st = "Launched" /\ \E ex \in ExTexts : Timeout(ex)

\* sp.run fails to launch or to read the process
RunFails ==
    st = "Launched" /\ \E kind \in LaunchErrors, ex \in ExTexts : LaunchFail(kind, ex)

\* sp.run returns a completed process
RunReturns ==
    st = "Launched" /\ \E rawout \in RawStdouts, rawerr \in RawStderrs,
                           rc \in ReturnCodes : Complete(rawout, rawerr, rc)

Next ==
    \/ CallSearchDescriptions
    \/ CallGetManpage
    \/ Launch
    \/ RunTimesOut
    \/ RunFails
    \/ RunReturns
    \/ Classify

Spec == Init /\ [][Next]_vars

\* sp.run returns or raises within its timeout, and the code after it runs
FairSpec ==
    Spec /\ WF_vars(Launch) /\ WF_vars(Classify)
    /\ WF_vars(RunTimesOut \/ RunFails \/ RunReturns)

----------------------------------------------------------------------------
(* The validators on their own: the input is drawn first, then a validator *)
(* or a tool is applied to it.                                             *)

TOPIC_INPUT_ALPHABET == {"a", "Z", "3", "_", "-", ".", " ", "\n", "\t",
                         ";", "/", "\\xe9"}
QUERY_INPUT_ALPHABET ==
    {".", ",", ":", "/", "'", "\"", "(", ")", "[", "]", "{", "}",
     "*", "+", "?", "|", "^", "$", "_", "-",
     "a", "Z", "3", " ", "\n", "\t", "\\v", "\\xa0",
     ";", "&", "\\x60", "<", ">", "\\", "!", "\\xe9"}

ValidatorInputs ==
    Strs(TOPIC_INPUT_ALPHABET, MaxTopicLen)
    \cup Strs(QUERY_INPUT_ALPHABET, MaxQueryLen)
    \cup PageSamples \cup QuerySamples

ValidatorInit ==
    /\ st = "Idle" /\ op = "none" /\ input \in ValidatorInputs
    /\ section = <<>> /\ valid = <<>> /\ argv = <<>> /\ launches = 0
    /\ proc = NONE /\ out = NONE /\ result = NONE

ValidateTopic ==
    /\ st = "Idle" /\ op = "none"
    /\ op' = "validate_topic"
    /\ valid' = <<validate_topic(input)>>
    /\ UNCHANGED <<st, input, section, argv, launches, proc, out, result>>

ValidateSearchQuery ==
    /\ st = "Idle" /\ op = "none"
    /\ op' = "validate_search_query"
    /\ valid' = <<validate_search_query(input)>>
    /\ UNCHANGED <<st, input, section, argv, launches, proc, out, result>>

ValidatorNext ==
    \/ ValidateTopic
    \/ ValidateSearchQuery
    \/ SearchDescriptions(input)
    \/ GetManpage(input, <<>>)

ValidatorSpec == ValidatorInit /\ [][ValidatorNext]_vars

----------------------------------------------------------------------------
(* Properties. *)

\* the call returned to its caller
Terminal == {"Rejected", "TimedOut", "LaunchFailed", "Success", "SoftFailure"}

HasChar(s, C) == \E k \in 1..Len(s) : s[k] \in C

SHELL_METACHARS == {";", "|", "&", "$", "\\x60", "(", ")", "<", ">", "\n"}

\* C1: a page holding a shell metacharacter ; | & $ ` ( ) < > or newline is
\* answered, whatever the section, by an InputValidationError carrying the
\* page as given, and sp.run is never reached in that call.
C1_MetacharPageRejected ==
    (op = "get_manpage" /\ HasChar(input, SHELL_METACHARS)) =>
        /\ st = "Rejected"
        /\ result.type = "ManResult"
        /\ result.result.type = "InputValidationError"
        /\ result.result.input = input
        /\ launches = 0 /\ argv = <<>> /\ proc = NONE /\ out = NONE

C1_Witness ==
    /\ op = "get_manpage" /\ input = <<"l", "s", ";", " ", "i", "d">> /\ section = <<3>>
    /\ st = "Rejected" /\ result.result.type = "InputValidationError"

\* C2: no caller-derived token of an argv handed to execute_call begins
\* with "-", and every argv is [man, page], [man, n, page] with n the
\* decimal string of a positive section, or [man, "-k", query].
C2_NoOptionInjection ==
    argv # <<>> =>
        \/ /\ op = "get_manpage" /\ argv = <<MAN, input>>
           /\ input[1] # "-"
        \/ /\ op = "get_manpage" /\ section # <<>> /\ section[1] > 0
           /\ argv = <<MAN, str(section[1]), input>>
           /\ input[1] # "-"
        \/ /\ op = "search_descriptions" /\ argv = <<MAN, <<"-", "k">>, input>>
           /\ input[1] # "-"

\* the fields a result of each type holds
FieldsOf(type) ==
    CASE type = "ManError" -> {"type", "stdout", "stderr", "return_code", "note"}
      [] type = "ManSearchResult" -> {"type", "results"}
      [] type = "ManPage" -> {"type", "text"}
      [] type = "InputValidationError" -> {"type", "input", "note"}
      [] OTHER -> {}

\* C3: whatever the input and whatever the external process does, the call
\* returns a ManResult holding exactly one of ManError, ManSearchResult,
\* ManPage, InputValidationError, and no exception leaves execute_call or
\* the tool.
C3_AlwaysEnvelope ==
    /\ out.type \in {"None", "ManError", "CompletedProcess"}
    /\ st \in Terminal =>
          /\ result.type = "ManResult"
          /\ result.result.type \in
                {"ManError", "ManSearchResult", "ManPage", "InputValidationError"}
          /\ DOMAIN result.result = FieldsOf(result.result.type)
    /\ st \notin Terminal => result = NONE

C3_Witness ==
    /\ st = "LaunchFailed" /\ result.type = "ManResult"
    /\ result.result.type = "ManError"

NOT_FOUND == <<"N", "o", " ", "m", "a", "n", "u", "a", "l", " ", "e", "n", "t", "r", "y", " ", "f", "o", "r", " ">>

\* the part of the note each signal contributes
C4_StderrPart(p) ==
    IF p.stderr # <<>>
    THEN <<"U", "n", "e", "x", "p", "e", "c", "t", "e", "d", " ", "e", "r", "r", "o", "r", " ", "e", "n", "c", "o", "u", "n", "t", "e", "r", "e", "d", ":", " ">> \o p.stderr \o <<"\n">> ELSE <<>>
C4_NotFoundPart(p) ==
    IF Contains(p.stdout, NOT_FOUND) THEN p.stdout \o <<"\n">> ELSE <<>>
C4_ReturnCodePart(p) ==
    IF p.returncode # 0
    THEN <<"N", "o", "n", " ", "z", "e", "r", "o", " ", "r", "e", "t", "u", "r", "n", " ", "c", "o", "d", "e", " ", "\\x60">> \o str(p.returncode) \o <<"\\x60", "\n">>
    ELSE <<>>

\* C4: for a completed process execute_call returns the process itself
\* exactly when stderr is empty, stdout lacks "No manual entry for " and the
\* exit code is 0; otherwise a ManError with the process's stdout, stderr
\* and exit code whose note is the stderr part, the not-found part and the
\* return code part, in that order, one for each signal that fired.
C4_ThreeSignals ==
    st \in {"Success", "SoftFailure"} =>
        LET clean == /\ proc.stderr = <<>>
                     /\ ~Contains(proc.stdout, NOT_FOUND)
                     /\ proc.returncode = 0
        IN  /\ clean <=> st = "Success"
            /\ clean => out = proc
            /\ ~clean =>
                 /\ out.type = "ManError"
                 /\ out.stdout = proc.stdout
                 /\ out.stderr = proc.stderr
                 /\ out.return_code = proc.returncode
                 /\ out.note = C4_StderrPart(proc) \o C4_NotFoundPart(proc)
                                 \o C4_ReturnCodePart(proc)
                 /\ (proc.returncode = 1 /\ Contains(proc.stdout, NOT_FOUND)) =>
                       /\ Contains(out.note, <<"N", "o", " ", "m", "a", "n", "u", "a", "l", " ", "e", "n", "t", "r", "y", " ", "f", "o", "r">>)
                       /\ Contains(out.note, <<"N", "o", "n", " ", "z", "e", "r", "o", " ", "r", "e", "t", "u", "r", "n", " ", "c", "o", "d", "e">>)

C4_Witness ==
    /\ st = "SoftFailure" /\ proc.returncode = 1 /\ proc.stderr = <<>>
    /\ proc.stdout = <<"N", "o", " ", "m", "a", "n", "u", "a", "l", " ", "e", "n", "t", "r", "y", " ", "f", "o", "r", " ", "f", "o", "o", "\n">>
    /\ out.type = "ManError"

\* C5: a ManError has return_code -1 exactly when the process never
\* completed (timeout or launch failure), and then stdout and stderr are
\* empty; any other return_code is a completed process's exit status.
C5_MinusOneMeansNeverCompleted ==
    out.type = "ManError" =>
        /\ out.return_code = -1 <=> st \in {"TimedOut", "LaunchFailed"}
        /\ st \in {"TimedOut", "LaunchFailed"} =>
              out.stdout = <<>> /\ out.stderr = <<>>
        /\ st = "SoftFailure" => out.return_code = proc.returncode

\* one or more of [A-Za-z0-9_-], then zero or more groups of "." and one
\* or more of [A-Za-z0-9_], read off the string without matching
TopicGrammar(s) ==
    LET allowed == LOWER \cup UPPER \cup DIGITS \cup {"_", "-", "."}
        dots == {k \in 1..Len(s) : s[k] = "."}
    IN  /\ Len(s) >= 1
        /\ \A k \in 1..Len(s) : s[k] \in allowed
        /\ s[1] # "." /\ s[Len(s)] # "."
        /\ \A k \in dots : (k + 1) \notin dots
        /\ \A k \in 1..Len(s) : s[k] = "-" => \A d \in dots : d > k

\* C6: validate_topic returns true exactly for [A-Za-z0-9_-]+ followed by
\* groups of "." and [A-Za-z0-9_]+, matched from start to end; false for
\* the empty string, for whitespace anywhere (a trailing newline too), for
\* a hyphen after the first dot and for any other character; it returns a
\* boolean for every string.
C6_TopicGrammar ==
    op = "validate_topic" =>
        /\ valid \in {<<TRUE>>, <<FALSE>>}
        /\ valid[1] <=> TopicGrammar(input)
        /\ input = <<>> => ~valid[1]
        /\ HasChar(input, WHITESPACE) => ~valid[1]
        /\ (Len(input) > 0 /\ input[Len(input)] = "\n") => ~valid[1]
        /\ (\E d, h \in 1..Len(input) :
               d < h /\ input[d] = "." /\ input[h] = "-") => ~valid[1]

C6_Witness ==
    /\ op = "validate_topic" /\ input = <<"a", ".", "3">> /\ valid = <<TRUE>>

\* the characters the search allow-list names
C7_Allowed ==
    LOWER \cup UPPER \cup DIGITS \cup WHITESPACE \cup
    {".", ",", ":", "/", "'", "\"", "(", ")", "[", "]", "{", "}",
     "*", "+", "?", "|", "^", "$", "_", "-"}

\* C7: validate_search_query returns true exactly for the strings of
\* length >= 1 made of letters, digits, whitespace and
\* . , : / ' " ( ) [ ] { } * + ? | ^ $ _ - ; false for the empty string and
\* for a backtick, semicolon, ampersand, < or > anywhere; and a query it
\* refuses gets an InputValidationError carrying the query as given.
C7_SearchAllowList ==
    /\ op = "validate_search_query" =>
          /\ valid \in {<<TRUE>>, <<FALSE>>}
          /\ valid[1] <=>
                (Len(input) >= 1 /\ \A k \in 1..Len(input) : input[k] \in C7_Allowed)
          /\ input = <<>> => ~valid[1]
          /\ HasChar(input, {"\\x60", ";", "&", "<", ">"}) => ~valid[1]
    /\ op = "search_descriptions" =>
          /\ valid[1] <=>
                (Len(input) >= 1 /\ \A k \in 1..Len(input) : input[k] \in C7_Allowed)
          /\ ~valid[1] =>
                /\ st = "Rejected"
                /\ result.type = "ManResult"
                /\ result.result.type = "InputValidationError"
                /\ result.result.input = input

C7_Witness ==
    /\ op = "search_descriptions" /\ input = <<"a", ";">> /\ valid = <<FALSE>>
    /\ st = "Rejected"

RECURSIVE ParseNat(_)
\* the natural number a string of decimal digits denotes, -1 if it is not one
ParseNat(s) ==
    IF s = <<>> \/ s[Len(s)] \notin DIGITS THEN -1
    ELSE LET d == CHOOSE n \in 0..9 : DigitChar(n) = s[Len(s)]
         IN  IF Len(s) = 1 THEN d
             ELSE IF ParseNat(SubSeq(s, 1, Len(s) - 1)) < 0 THEN -1
             ELSE 10 * ParseNat(SubSeq(s, 1, Len(s) - 1)) + d

\* s is the decimal string of the int n, as str(n) writes it
IsDecimalOf(s, n) ==
    /\ s # <<>>
    /\ IF n < 0
       THEN s[1] = "-" /\ ParseNat(Tail(s)) = -n
       ELSE ParseNat(s) = n
    /\ (Len(s) > 1 /\ n >= 0) => s[1] # "0"

\* C8: for a page validate_topic accepts, execute_call gets exactly
\* ["man", str(section), page] when a non-zero section is given and exactly
\* ["man", page] when section is None or 0; on success the result is a
\* ManPage whose text is the captured stdout, unmodified.
C8_ManpageArgv ==
    (op = "get_manpage" /\ valid = <<TRUE>>) =>
        /\ st # "Rejected"
        /\ IF section = <<>> \/ section = <<0>>
           THEN argv = <<<<"m", "a", "n">>, input>>
           ELSE /\ Len(argv) = 3
                /\ argv[1] = <<"m", "a", "n">>
                /\ IsDecimalOf(argv[2], section[1])
                /\ argv[3] = input
        /\ proc # NONE => proc.args = argv
        /\ st = "Success" =>
              /\ result.type = "ManResult"
              /\ result.result.type = "ManPage"
              /\ result.result.text = proc.stdout

C8_Witness ==
    /\ op = "get_manpage" /\ input = <<"p", "r", "i", "n", "t", "f">> /\ section = <<3>>
    /\ argv = <<<<"m", "a", "n">>, <<"3">>, <<"p", "r", "i", "n", "t", "f">>>>
    /\ st = "Success" /\ result.result.text = <<"o", "k">>

RECURSIVE Rejoin(_, _)
\* lines put back together, the k-th followed by the k-th terminator while
\* terminators last
Rejoin(lines, terms) ==
    IF lines = <<>> THEN <<>>
    ELSE Head(lines) \o (IF terms = <<>> THEN <<>> ELSE <<Head(terms)>>)
         \o Rejoin(Tail(lines), IF terms = <<>> THEN <<>> ELSE Tail(terms))

IsTerminator(c) == c \in LINE_BOUNDARIES

\* results are the lines of s: no entry holds a line terminator, the
\* entries followed by the terminators of s in order give back s, and only
\* a last line that is not empty may lack its terminator
IsLinesOf(results, s) ==
    LET terms == SelectSeq(s, IsTerminator)
    IN  /\ \A k \in 1..Len(results) : ~HasChar(results[k], LINE_BOUNDARIES)
        /\ Len(terms) \in {Len(results), Len(results) - 1}
        /\ Len(terms) = Len(results) - 1 => results[Len(results)] # <<>>
        /\ Rejoin(results, terms) = s

\* C9: for a query validate_search_query accepts, execute_call gets exactly
\* ["man", "-k", query]; on success the result is a ManSearchResult whose
\* results are the lines of the captured stdout, in order, duplicates kept,
\* terminators removed, no empty entry for a final terminator, and no entry
\* for empty stdout; a ManError from execute_call is returned unchanged.
C9_SearchLines ==
    (op = "search_descriptions" /\ valid = <<TRUE>>) =>
        /\ st # "Rejected"
        /\ argv = <<<<"m", "a", "n">>, <<"-", "k">>, input>>
        /\ proc # NONE => proc.args = argv
        /\ st = "Success" =>
              /\ result.type = "ManResult"
              /\ result.result.type = "ManSearchResult"
              /\ IsLinesOf(result.result.results, proc.stdout)
              /\ proc.stdout = <<>> => result.result.results = <<>>
        /\ st \in {"SoftFailure", "TimedOut", "LaunchFailed"} =>
              /\ result.type = "ManResult"
              /\ result.result = out
              /\ out.type = "ManError"
        /\ st = "SoftFailure" =>
              /\ result.result.stdout = proc.stdout
              /\ result.result.stderr = proc.stderr
              /\ result.result.return_code = proc.returncode

C9_Witness ==
    /\ op = "search_descriptions" /\ input = <<"l", "i", "s", "t">> /\ st = "Success"
    /\ proc.stdout = <<"a", "\n", "b", "\n", "\n", "a", "\n">>
    /\ result.result.results = <<<<"a">>, <<"b">>, <<>>, <<"a">>>>

StartsWith(s, prefix) ==
    Len(s) >= Len(prefix) /\ SubSeq(s, 1, Len(prefix)) = prefix

\* the steps one call of execute_call may take
C10_Steps ==
    {<<"Start", "Launched">>,
     <<"Launched", "TimedOut">>, <<"Launched", "LaunchFailed">>,
     <<"Launched", "Completed">>,
     <<"Completed", "Success">>, <<"Completed", "SoftFailure">>}

\* C10: a call of execute_call goes Start -> Launched -> TimedOut,
\* LaunchFailed or Completed, and Completed -> Success or SoftFailure; it
\* launches the process exactly once, never again after a timeout or a
\* failure, and always ends in one terminal outcome, which it never leaves;
\* TimedOut gives a ManError with return_code -1, empty stdout and stderr
\* and a note "Timeout exception ...", LaunchFailed the same with a note
\* "Unknown exception ...".
C10_OneLaunchOneOutcome ==
    /\ [][/\ st \notin {"Idle"} => <<st, st'>> \in C10_Steps
          /\ launches' = IF st = "Start" THEN launches + 1 ELSE launches]_vars
    /\ [](/\ launches = IF st \in {"Idle", "Rejected", "Start"} THEN 0 ELSE 1
          /\ st = "TimedOut" =>
                /\ out = ManError(<<>>, <<>>, -1, out.note)
                /\ StartsWith(out.note, <<"T", "i", "m", "e", "o", "u", "t", " ", "e", "x", "c", "e", "p", "t", "i", "o", "n", " ">>)
          /\ st = "LaunchFailed" =>
                /\ out = ManError(<<>>, <<>>, -1, out.note)
                /\ StartsWith(out.note, <<"U", "n", "k", "n", "o", "w", "n", " ", "e", "x", "c", "e", "p", "t", "i", "o", "n", " ">>)
          /\ st = "Success" => out.type = "CompletedProcess"
          /\ st = "SoftFailure" => out.type = "ManError")
    /\ (st = "Start") ~>
          (st \in {"TimedOut", "LaunchFailed", "Success", "SoftFailure"})

C10_Witness ==
    /\ st = "TimedOut" /\ launches = 1
    /\ out.note = <<"T", "i", "m", "e", "o", "u", "t", " ", "e", "x", "c", "e", "p", "t", "i", "o", "n", " ", "b", "o", "o", "m", ".">>

====
